---- MODULE Spec2Model ----
(***************************************************************************)
(* Model of the sandbox SDK's policy registry / policy composition         *)
(* (sandbox_sdk/presets.py), of its workspace walker and pattern matcher   *)
(* (sandbox_sdk/utils.py) and of the provisioner from_local                *)
(* (sandbox_sdk/sandbox.py and sandbox_rls/_async/sandbox.py).             *)
(*                                                                         *)
(* Data representation                                                     *)
(*   - a Python str that is only compared for equality is a TLA+ string;   *)
(*     a str that is parsed, matched or ordered is a tuple of its          *)
(*     one-character strings;                                              *)
(*   - a rule description (dict) is a record that has exactly the keys the *)
(*     dict has; its "priority" value is [int |-> n] for a Python int and  *)
(*     [str |-> <<digits>>] for a Python str;                              *)
(*   - a PermissionRule object is a record with the field cls.             *)
(***************************************************************************)
EXTENDS Integers, Sequences, FiniteSets, TLC

VARIABLES
    PRESETS,      \* presets.PRESETS: the dict, as the sequence of its items in insertion order
    ret,          \* outcome of the last call of the presets API
    registered,   \* history: the names whose register_preset call succeeded
    firstRules,   \* history: name -> rules the name was first stored with
    rpc,          \* race: per thread, its position inside register_preset
    rcall,        \* race: per thread, the arguments of its register_preset call
    wpc,          \* walk: position of walk_directory ("init", "loop", "done", "raised")
    fs,           \* walk: the files' size and readability, and the ignore files
    cfg,          \* walk: the arguments of walk_directory
    patterns,     \* walk: the local list `patterns`
    delivered,    \* walk: the entries root_path.rglob("*") has delivered so far
    ignored_dirs, \* walk: the local set `ignored_dirs`
    yielded,      \* walk: the (rel_path, content) pairs yielded so far, in order
    skipped,      \* walk: history of the oversized files the loop skipped
    mpath,        \* match: the relative path handed to _should_ignore, as its segments
    mpat,         \* match: the pattern handed to _should_ignore, as written by the user
    mres,         \* match: what _should_ignore returned ("none" before the call)
    ppc,          \* provision: position inside from_local
    pin,          \* provision: the arguments of from_local and what the walk will yield
    plocal,       \* provision: the locals client, codebase, sandbox_info and the pending error
    plog,         \* provision: the calls made on the client so far, in order
    psvc,         \* provision: what exists on the service (codebases, sandboxes)
    perr,         \* provision: the error the caller of from_local sees ("none" so far)
    sb,           \* lifecycle: the fields of the Sandbox (or SessionWrapper) object
    spc,          \* lifecycle: position of the program using the object
    sctx,         \* lifecycle: the with-block and the destroy() invocation in progress
    slog,         \* lifecycle: the calls made on the client so far, in order
    serr          \* lifecycle: the error the last statement of the program raised

vars == <<PRESETS, ret, registered, firstRules, rpc, rcall,
          wpc, fs, cfg, patterns, delivered, ignored_dirs, yielded, skipped,
          mpath, mpat, mres, ppc, pin, plocal, plog, psvc, perr,
          sb, spc, sctx, slog, serr>>

registryVars == <<PRESETS, ret, registered, firstRules>>
raceVars     == <<rpc, rcall>>
walkVars     == <<wpc, fs, cfg, patterns, delivered, ignored_dirs, yielded, skipped>>
matchVars    == <<mpath, mpat, mres>>
provVars     == <<ppc, pin, plocal, plog, psvc, perr>>
lifeVars     == <<sb, spc, sctx, slog, serr>>

(***************************************************************************)
(* Bounds of the model.                                                    *)
(***************************************************************************)
MaxRules == 3    \* most rules (additions plus overrides) passed to one extend_preset call

(***************************************************************************)
(* Generic helpers.                                                        *)
(***************************************************************************)
Range(s) == {s[i] : i \in 1..Len(s)}

SeqsUpTo(S, n) == UNION {[1..k -> S] : k \in 0..n}

RECURSIVE MaxOfSet(_)
MaxOfSet(S) ==
    LET x == CHOOSE y \in S : TRUE
    IN  IF S = {x} THEN x
        ELSE LET m == MaxOfSet(S \ {x}) IN IF x > m THEN x ELSE m

(***************************************************************************)
(* Python str ordering (code points, lexicographic), used by sorted().     *)
(***************************************************************************)
Lower == <<"a","b","c","d","e","f","g","h","i","j","k","l","m",
           "n","o","p","q","r","s","t","u","v","w","x","y","z">>

Ord(c) ==
    IF c = "-" THEN 45
    ELSE 96 + (CHOOSE i \in 1..Len(Lower) : Lower[i] = c)

NameChars(n) ==
    CASE n = "agent-safe"  -> <<"a","g","e","n","t","-","s","a","f","e">>
      [] n = "read-only"   -> <<"r","e","a","d","-","o","n","l","y">>
      [] n = "full-access" -> <<"f","u","l","l","-","a","c","c","e","s","s">>
      [] n = "development" -> <<"d","e","v","e","l","o","p","m","e","n","t">>
      [] n = "view-only"   -> <<"v","i","e","w","-","o","n","l","y">>
      [] n = "my-custom"   -> <<"m","y","-","c","u","s","t","o","m">>
      [] n = "agent"       -> <<"a","g","e","n","t">>
      [] n = "nonexistent" -> <<"n","o","n","e","x","i","s","t","e","n","t">>

RECURSIVE CharsLess(_, _)
CharsLess(a, b) ==
    IF b = <<>> THEN FALSE
    ELSE IF a = <<>> THEN TRUE
    ELSE IF Ord(Head(a)) # Ord(Head(b)) THEN Ord(Head(a)) < Ord(Head(b))
    ELSE CharsLess(Tail(a), Tail(b))

StrLess(a, b) == CharsLess(NameChars(a), NameChars(b))

RECURSIVE InsertSorted(_, _)
InsertSorted(s, x) ==
    IF s = <<>> THEN <<x>>
    ELSE IF StrLess(x, Head(s)) THEN <<x>> \o s
    ELSE <<Head(s)>> \o InsertSorted(Tail(s), x)

RECURSIVE SortedStrs(_)
SortedStrs(s) ==
    IF s = <<>> THEN <<>>
    ELSE InsertSorted(SortedStrs(Tail(s)), Head(s))

(***************************************************************************)
(* types.py: Permission, PatternType, PermissionRule.                      *)
(***************************************************************************)
Permission  == {"none", "view", "read", "write"}
PatternType == {"glob", "directory", "file"}

PermissionRule(pattern, permission, type, priority) ==
    [cls |-> "PermissionRule", pattern |-> pattern, permission |-> permission,
     type |-> type, priority |-> priority]

(***************************************************************************)
(* int(x) for x an int or a str of an optional sign and decimal digits.    *)
(***************************************************************************)
Digits == <<"0","1","2","3","4","5","6","7","8","9">>

IsDigit(c) == \E i \in 1..Len(Digits) : Digits[i] = c

DigitVal(c) == (CHOOSE i \in 1..Len(Digits) : Digits[i] = c) - 1

RECURSIVE ParseDigits(_, _)
ParseDigits(s, acc) ==
    IF s = <<>> THEN acc
    ELSE ParseDigits(Tail(s), 10 * acc + DigitVal(Head(s)))

IntParses(s) ==
    LET body == IF s # <<>> /\ Head(s) \in {"-", "+"} THEN Tail(s) ELSE s
    IN  body # <<>> /\ \A i \in 1..Len(body) : IsDigit(body[i])

ParseInt(s) ==
    IF Head(s) = "-" THEN 0 - ParseDigits(Tail(s), 0)
    ELSE IF Head(s) = "+" THEN ParseDigits(Tail(s), 0)
    ELSE ParseDigits(s, 0)

PyInt(v) == IF "int" \in DOMAIN v THEN v.int ELSE ParseInt(v.str)

PyIntOk(v) == "int" \in DOMAIN v \/ IntParses(v.str)

(***************************************************************************)
(* presets.PRESETS at import time.                                         *)
(***************************************************************************)
Rule3(pattern, permission, digits) ==
    [pattern |-> pattern, permission |-> permission, priority |-> [str |-> digits]]

BuiltinPresets == <<
    [name |-> "agent-safe", rules |-> <<
        Rule3("**/*", "read", <<"0">>),
        Rule3("/output/**", "write", <<"1","0">>),
        Rule3("/tmp/**", "write", <<"1","0">>),
        Rule3("**/.env*", "none", <<"1","0","0">>),
        Rule3("**/secrets/**", "none", <<"1","0","0">>),
        Rule3("**/*.key", "none", <<"1","0","0">>),
        Rule3("**/*.pem", "none", <<"1","0","0">>),
        Rule3("**/credentials*", "none", <<"1","0","0">>),
        Rule3("**/.git/**", "none", <<"5","0">>) >>],
    [name |-> "read-only", rules |-> <<
        Rule3("**/*", "read", <<"0">>) >>],
    [name |-> "full-access", rules |-> <<
        Rule3("**/*", "write", <<"0">>) >>],
    [name |-> "development", rules |-> <<
        Rule3("**/*", "write", <<"0">>),
        Rule3("**/.env*", "none", <<"1","0","0">>),
        Rule3("**/secrets/**", "none", <<"1","0","0">>),
        Rule3("**/*.key", "none", <<"1","0","0">>),
        Rule3("**/*.pem", "none", <<"1","0","0">>) >>],
    [name |-> "view-only", rules |-> <<
        Rule3("**/*", "view", <<"0">>) >>] >>

(***************************************************************************)
(* dict operations on PRESETS.                                             *)
(***************************************************************************)
Keys(P) == [i \in 1..Len(P) |-> P[i].name]

Has(P, name) == \E i \in 1..Len(P) : P[i].name = name

Lookup(P, name) == P[CHOOSE i \in 1..Len(P) : P[i].name = name].rules

\* PRESETS[name] = rules
Store(P, name, rules) ==
    IF Has(P, name)
    THEN [i \in 1..Len(P) |-> IF P[i].name = name
                              THEN [name |-> name, rules |-> rules] ELSE P[i]]
    ELSE Append(P, [name |-> name, rules |-> rules])

BuiltinNames == Range(Keys(BuiltinPresets))
(***************************************************************************)
(* Conversion of a rule description to a PermissionRule, as written in     *)
(* get_preset and in extend_preset.to_rule: the keyword arguments are      *)
(* evaluated in the order pattern, permission, type, priority.             *)
(***************************************************************************)
DictErr(d) ==
    IF "pattern" \notin DOMAIN d THEN "KeyError"
    ELSE IF "permission" \notin DOMAIN d THEN "KeyError"
    ELSE IF d.permission \notin Permission THEN "ValueError"
    ELSE IF "type" \in DOMAIN d /\ d.type \notin PatternType THEN "ValueError"
    ELSE IF "priority" \in DOMAIN d /\ ~PyIntOk(d.priority) THEN "ValueError"
    ELSE ""

\* the description's priority is not read
DictToRulePriorityDropped(d) ==
    PermissionRule(d.pattern,
                   d.permission,
                   IF "type" \in DOMAIN d THEN d.type ELSE "glob",
                   0)

\* PermissionRule(pattern=..., permission=..., type=..., priority=...)
DictToRule(d) ==
    PermissionRule(d.pattern,
                   d.permission,
                   IF "type" \in DOMAIN d THEN d.type ELSE "glob",
                   IF "priority" \in DOMAIN d THEN PyInt(d.priority) ELSE 0)

IsRuleObject(item) == "cls" \in DOMAIN item

to_rule_err(item) == IF IsRuleObject(item) THEN "" ELSE DictErr(item)

to_rule(item) == IF IsRuleObject(item) THEN item ELSE DictToRule(item)

\* the error of the first element of a list that fails to convert, "" if none does
RECURSIVE FirstErr(_)
FirstErr(items) ==
    IF items = <<>> THEN ""
    ELSE IF to_rule_err(Head(items)) # "" THEN to_rule_err(Head(items))
    ELSE FirstErr(Tail(items))

(***************************************************************************)
(* get_preset / get_preset_dicts / list_presets.                           *)
(***************************************************************************)
\* the message lists the names of the built-in presets only
UnknownPresetMsgBuiltinOnly(P, name) ==
    [text |-> "Unknown preset", name |-> name,
     available |-> SortedStrs(Keys(BuiltinPresets))]

\* f"Unknown preset '{name}'. Available presets: {available}"; `available` is kept
\* as the list that ", ".join() is applied to
UnknownPresetMsg(P, name) ==
    [text |-> "Unknown preset", name |-> name, available |-> SortedStrs(Keys(P))]

AlreadyExistsMsg(name) ==
    [text |-> "already exists", name |-> name, available |-> <<>>]

NoMsg == [text |-> "", name |-> "", available |-> <<>>]

\* the list comprehension of get_preset
GetPresetRules(P, name) ==
    [i \in 1..Len(Lookup(P, name)) |-> DictToRule(Lookup(P, name)[i])]

\* the keys in insertion order, not sorted
ListNamesUnsorted(P) == Keys(P)

\* sorted(PRESETS.keys())
ListNames(P) == SortedStrs(Keys(P))

(***************************************************************************)
(* extend_preset.                                                          *)
(***************************************************************************)
\* an addition whose pattern is already in the list is dropped
RECURSIVE AppendAdditionsDedup(_, _)
AppendAdditionsDedup(rules, additions) ==
    IF additions = <<>> THEN rules
    ELSE IF \E i \in 1..Len(rules) : rules[i].pattern = to_rule(Head(additions)).pattern
         THEN AppendAdditionsDedup(rules, Tail(additions))
         ELSE AppendAdditionsDedup(Append(rules, to_rule(Head(additions))),
                                   Tail(additions))

\* for item in additions: rules.append(to_rule(item))
RECURSIVE AppendAdditions(_, _)
AppendAdditions(rules, additions) ==
    IF additions = <<>> THEN rules
    ELSE AppendAdditions(Append(rules, to_rule(Head(additions))), Tail(additions))

\* max(r.priority for r in rules) if rules else 0
MaxPriority(rules) ==
    IF rules = <<>> THEN 0
    ELSE MaxOfSet({rules[i].priority : i \in 1..Len(rules)})

\* the comparison written as <
NeedsBoostStrict(priority, max_priority) == priority < max_priority

\* if rule.priority <= max_priority
NeedsBoost(priority, max_priority) == priority <= max_priority

BoostRule(rule, max_priority) ==
    IF NeedsBoost(rule.priority, max_priority)
    THEN PermissionRule(rule.pattern, rule.permission, rule.type, max_priority + 100)
    ELSE rule

\* max_priority taken again from the growing list before each override
RECURSIVE AppendOverridesRecomputed(_, _, _)
AppendOverridesRecomputed(rules, overrides, max_priority) ==
    IF overrides = <<>> THEN rules
    ELSE AppendOverridesRecomputed(
             Append(rules, BoostRule(to_rule(Head(overrides)), MaxPriority(rules))),
             Tail(overrides), max_priority)

\* for item in overrides: ... rules.append(rule)
RECURSIVE AppendOverrides(_, _, _)
AppendOverrides(rules, overrides, max_priority) ==
    IF overrides = <<>> THEN rules
    ELSE AppendOverrides(
             Append(rules, BoostRule(to_rule(Head(overrides)), max_priority)),
             Tail(overrides), max_priority)

\* the body of extend_preset after `rules = get_preset(base)`
ExtendRules(rules, additions, overrides) ==
    LET withAdditions == IF additions # <<>> THEN AppendAdditions(rules, additions)
                         ELSE rules
    IN  IF overrides # <<>>
        THEN AppendOverrides(withAdditions, overrides, MaxPriority(withAdditions))
        ELSE withAdditions
(***************************************************************************)
(* Inputs of the presets API that the model draws from.                    *)
(***************************************************************************)
CustomNames   == {"my-custom", "agent"}
RegisterNames == CustomNames \cup {"read-only"}
LookupNames   == BuiltinNames \cup CustomNames \cup {"nonexistent"}

\* the rule lists passed to register_preset: the docstring's example, and an empty list
RegisterRules == {
    << [pattern |-> "**/*", permission |-> "read"],
       [pattern |-> "/src/**", permission |-> "write"] >>,
    << >> }

\* additions: a dict without priority, a PermissionRule above every built-in
\* priority, and a dict without the "permission" key
AdditionItems == {
    [pattern |-> "/output/**", permission |-> "write"],
    PermissionRule("/custom/**", "write", "glob", 200),
    [pattern |-> "/broken/**"] }

\* overrides: the priority given as int, as str (equal to agent-safe's maximum),
\* and a negative one on a PermissionRule
OverrideItems == {
    [pattern |-> "/src/**", permission |-> "write", priority |-> [int |-> 5]],
    [pattern |-> "**/.env*", permission |-> "read", type |-> "file",
     priority |-> [str |-> <<"1","0","0">>]],
    PermissionRule("/x", "none", "directory", 0 - 5) }

(***************************************************************************)
(* The outcome of a call.                                                  *)
(***************************************************************************)
Outcome(op, name, status, msg, rules, dicts, names, arg, additions, overrides) ==
    [op |-> op, name |-> name, status |-> status, msg |-> msg, rules |-> rules,
     dicts |-> dicts, names |-> names, arg |-> arg,
     additions |-> additions, overrides |-> overrides]

Raised(op, name, status, msg, arg, additions, overrides) ==
    Outcome(op, name, status, msg, <<>>, <<>>, <<>>, arg, additions, overrides)

NoCall == Outcome("", "", "", NoMsg, <<>>, <<>>, <<>>, <<>>, <<>>, <<>>)

(***************************************************************************)
(* The operations of presets.py, each call one step.  A call is made when  *)
(* the caller holds no outcome; Discard is the caller dropping the outcome *)
(* of its last call before it makes the next one.                          *)
(***************************************************************************)
GetPreset(name) ==
    /\ ret = NoCall
    /\ ret' =
         IF ~Has(PRESETS, name)
         THEN Raised("get_preset", name, "ValueError", UnknownPresetMsg(PRESETS, name),
                     <<>>, <<>>, <<>>)
         ELSE IF FirstErr(Lookup(PRESETS, name)) # ""
         THEN Raised("get_preset", name, FirstErr(Lookup(PRESETS, name)), NoMsg,
                     <<>>, <<>>, <<>>)
         ELSE Outcome("get_preset", name, "ok", NoMsg, GetPresetRules(PRESETS, name),
                      <<>>, <<>>, <<>>, <<>>, <<>>)
    /\ UNCHANGED <<PRESETS, registered, firstRules>>
    /\ UNCHANGED <<raceVars, walkVars, matchVars, provVars, lifeVars>>

GetPresetDicts(name) ==
    /\ ret = NoCall
    /\ ret' =
         IF ~Has(PRESETS, name)
         THEN Raised("get_preset_dicts", name, "ValueError",
                     UnknownPresetMsg(PRESETS, name), <<>>, <<>>, <<>>)
         ELSE Outcome("get_preset_dicts", name, "ok", NoMsg, <<>>,
                      Lookup(PRESETS, name), <<>>, <<>>, <<>>, <<>>)
    /\ UNCHANGED <<PRESETS, registered, firstRules>>
    /\ UNCHANGED <<raceVars, walkVars, matchVars, provVars, lifeVars>>

\* the additions and overrides are appended to the registry's own list
ExtendPresetInPlace(base, additions, overrides) ==
    /\ ret = NoCall
    /\ ret' =
         IF ~Has(PRESETS, base)
         THEN Raised("extend_preset", base, "ValueError",
                     UnknownPresetMsg(PRESETS, base), <<>>, additions, overrides)
         ELSE IF FirstErr(Lookup(PRESETS, base) \o additions \o overrides) # ""
         THEN Raised("extend_preset", base,
                     FirstErr(Lookup(PRESETS, base) \o additions \o overrides), NoMsg,
                     <<>>, additions, overrides)
         ELSE Outcome("extend_preset", base, "ok", NoMsg,
                      ExtendRules(GetPresetRules(PRESETS, base), additions, overrides),
                      <<>>, <<>>, <<>>, additions, overrides)
    /\ PRESETS' = IF Has(PRESETS, base)
                  THEN Store(PRESETS, base, Lookup(PRESETS, base) \o additions \o overrides)
                  ELSE PRESETS
    /\ UNCHANGED <<registered, firstRules>>
    /\ UNCHANGED <<raceVars, walkVars, matchVars, provVars, lifeVars>>

\* extend_preset(base, additions, overrides)
ExtendPreset(base, additions, overrides) ==
    /\ ret = NoCall
    /\ ret' =
         IF ~Has(PRESETS, base)
         THEN Raised("extend_preset", base, "ValueError",
                     UnknownPresetMsg(PRESETS, base), <<>>, additions, overrides)
         ELSE IF FirstErr(Lookup(PRESETS, base) \o additions \o overrides) # ""
         THEN Raised("extend_preset", base,
                     FirstErr(Lookup(PRESETS, base) \o additions \o overrides), NoMsg,
                     <<>>, additions, overrides)
         ELSE Outcome("extend_preset", base, "ok", NoMsg,
                      ExtendRules(GetPresetRules(PRESETS, base), additions, overrides),
                      <<>>, <<>>, <<>>, additions, overrides)
    /\ UNCHANGED <<PRESETS, registered, firstRules>>
    /\ UNCHANGED <<raceVars, walkVars, matchVars, provVars, lifeVars>>

ListPresets ==
    /\ ret = NoCall
    /\ ret' = Outcome("list_presets", "", "ok", NoMsg, <<>>, <<>>, ListNames(PRESETS),
                      <<>>, <<>>, <<>>)
    /\ UNCHANGED <<PRESETS, registered, firstRules>>
    /\ UNCHANGED <<raceVars, walkVars, matchVars, provVars, lifeVars>>

\* the store is done although the name is present and the error is raised
RegisterPresetStoreFirst(name, rules) ==
    /\ ret = NoCall
    /\ PRESETS' = Store(PRESETS, name, rules)
    /\ IF Has(PRESETS, name)
       THEN /\ ret' = Raised("register_preset", name, "ValueError",
                             AlreadyExistsMsg(name), rules, <<>>, <<>>)
            /\ UNCHANGED <<registered, firstRules>>
       ELSE /\ ret' = Outcome("register_preset", name, "ok", NoMsg, <<>>, <<>>, <<>>,
                              rules, <<>>, <<>>)
            /\ registered' = registered \cup {name}
            /\ firstRules' = [n \in DOMAIN firstRules \cup {name} |->
                                 IF n = name THEN rules ELSE firstRules[n]]
    /\ UNCHANGED <<raceVars, walkVars, matchVars, provVars, lifeVars>>

RegisterPreset(name, rules) ==
    /\ ret = NoCall
    /\ IF Has(PRESETS, name)
       THEN /\ ret' = Raised("register_preset", name, "ValueError",
                             AlreadyExistsMsg(name), rules, <<>>, <<>>)
            /\ UNCHANGED <<PRESETS, registered, firstRules>>
       ELSE /\ PRESETS' = Store(PRESETS, name, rules)
            /\ ret' = Outcome("register_preset", name, "ok", NoMsg, <<>>, <<>>, <<>>,
                              rules, <<>>, <<>>)
            /\ registered' = registered \cup {name}
            /\ firstRules' = [n \in DOMAIN firstRules \cup {name} |->
                                 IF n = name THEN rules ELSE firstRules[n]]
    /\ UNCHANGED <<raceVars, walkVars, matchVars, provVars, lifeVars>>

Discard ==
    /\ ret # NoCall
    /\ ret' = NoCall
    /\ UNCHANGED <<PRESETS, registered, firstRules>>
    /\ UNCHANGED <<raceVars, walkVars, matchVars, provVars, lifeVars>>

(***************************************************************************)
(* Idle values of the variables a specification does not use.              *)
(***************************************************************************)
RegistryInit ==
    /\ PRESETS = BuiltinPresets
    /\ ret = NoCall
    /\ registered = {}
    /\ firstRules = [n \in BuiltinNames |-> Lookup(BuiltinPresets, n)]

RaceIdle ==
    /\ rpc = <<>>
    /\ rcall = <<>>

WalkIdle ==
    /\ wpc = "idle"
    /\ fs = <<>>
    /\ cfg = <<>>
    /\ patterns = <<>>
    /\ delivered = {}
    /\ ignored_dirs = {}
    /\ yielded = <<>>
    /\ skipped = {}

MatchIdle ==
    /\ mpath = <<>>
    /\ mpat = <<>>
    /\ mres = "idle"

ProvIdle ==
    /\ ppc = "idle"
    /\ pin = <<>>
    /\ plocal = <<>>
    /\ plog = <<>>
    /\ psvc = <<>>
    /\ perr = "none"

LifeIdle ==
    /\ sb = <<>>
    /\ spc = "unused"
    /\ sctx = <<>>
    /\ slog = <<>>
    /\ serr = "none"

(***************************************************************************)
(* Spec: a single-threaded program calling the presets API.                *)
(***************************************************************************)
Init == RegistryInit /\ RaceIdle /\ WalkIdle /\ MatchIdle /\ ProvIdle /\ LifeIdle

Next ==
    \/ \E name \in LookupNames : GetPreset(name)
    \/ \E name \in LookupNames : GetPresetDicts(name)
    \/ \E base \in LookupNames :
         \E additions \in SeqsUpTo(AdditionItems, MaxRules) :
           \E overrides \in SeqsUpTo(OverrideItems, MaxRules - Len(additions)) :
             ExtendPreset(base, additions, overrides)
    \/ ListPresets
    \/ \E name \in RegisterNames : \E rules \in RegisterRules :
         RegisterPreset(name, rules)
    \/ Discard

Spec == Init /\ [][Next]_vars
(***************************************************************************)
(* SpecRace: threads inside register_preset at the same time.  The         *)
(* function takes no lock; the membership test (line 181) and the store    *)
(* (line 184) are separate steps of a thread, and another thread may run   *)
(* between them.                                                           *)
(***************************************************************************)
MaxThreads == 2

Threads == 1..MaxThreads

RaceInit ==
    /\ rpc = [t \in Threads |-> "start"]
    /\ rcall = [t \in Threads |-> [name |-> "", rules |-> <<>>]]

\* thread t enters register_preset(name, rules)
RaceCall(t, name, rules) ==
    /\ rpc[t] = "start"
    /\ rpc' = [rpc EXCEPT ![t] = "check"]
    /\ rcall' = [rcall EXCEPT ![t] = [name |-> name, rules |-> rules]]
    /\ UNCHANGED <<registryVars, walkVars, matchVars, provVars, lifeVars>>

\* if name in PRESETS: raise ValueError(...)
RaceCheck(t) ==
    /\ rpc[t] = "check"
    /\ rpc' = [rpc EXCEPT ![t] = IF Has(PRESETS, rcall[t].name)
                                 THEN "raised" ELSE "store"]
    /\ UNCHANGED <<rcall, registryVars, walkVars, matchVars, provVars, lifeVars>>

\* PRESETS[name] = rules
RaceStore(t) ==
    /\ rpc[t] = "store"
    /\ PRESETS' = Store(PRESETS, rcall[t].name, rcall[t].rules)
    /\ rpc' = [rpc EXCEPT ![t] = "done"]
    /\ UNCHANGED <<rcall, ret, registered, firstRules, walkVars, matchVars, provVars, lifeVars>>

InitRace == RegistryInit /\ RaceInit /\ WalkIdle /\ MatchIdle /\ ProvIdle /\ LifeIdle

NextRace ==
    \/ \E t \in Threads : \E name \in RegisterNames : \E rules \in RegisterRules :
         RaceCall(t, name, rules)
    \/ \E t \in Threads : RaceCheck(t)
    \/ \E t \in Threads : RaceStore(t)

SpecRace == InitRace /\ [][NextRace]_vars

(***************************************************************************)
(* Claims about extend_preset.                                             *)
(***************************************************************************)
ExtendReturned == ret.op = "extend_preset" /\ ret.status = "ok"

\* the rules that precede the overrides: get_preset(base), then the additions
ExtendPrefix ==
    GetPresetRules(PRESETS, ret.name)
        \o [i \in 1..Len(ret.additions) |-> to_rule(ret.additions[i])]

\* the priority the caller stated for the i-th override
Stated(i) == to_rule(ret.overrides[i]).priority

\* the rule extend_preset returned for the i-th override
Contributed(i) == ret.rules[Len(ret.rules) - Len(ret.overrides) + i]

\* C1: in the list extend_preset returns, every rule contributed from `overrides`
\* has a priority strictly greater than that of every base rule and every addition.
C1_OverridesOutrank ==
    ExtendReturned =>
        \A i \in 1..Len(ret.overrides) : \A j \in 1..Len(ExtendPrefix) :
            Contributed(i).priority > ExtendPrefix[j].priority

\* an override stated at exactly the existing maximum (100 on agent-safe) and a
\* negative one were composed
C1_Witness ==
    /\ ExtendReturned
    /\ ret.name = "agent-safe"
    /\ \E i \in 1..Len(ret.overrides) : Stated(i) = 100
    /\ \E i \in 1..Len(ret.overrides) : Stated(i) < 0
    /\ \E j \in 1..Len(ExtendPrefix) : ExtendPrefix[j].priority = 100

\* the general rule of C2: max_priority is the maximum priority over base rules plus
\* additions, taken once before the overrides; an override stated <= max_priority
\* gets exactly max_priority + 100, one stated above it keeps its priority; overrides
\* with equal stated priority end with equal priority
BoostRuleHolds ==
    /\ ExtendPrefix # <<>> =>
         LET prios == {ExtendPrefix[j].priority : j \in 1..Len(ExtendPrefix)}
             max_priority == CHOOSE m \in prios : \A q \in prios : q <= m
         IN  \A i \in 1..Len(ret.overrides) :
                 Contributed(i).priority =
                     IF Stated(i) <= max_priority THEN max_priority + 100
                     ELSE Stated(i)
    /\ \A i, j \in 1..Len(ret.overrides) :
           Stated(i) = Stated(j) => Contributed(i).priority = Contributed(j).priority

\* the example of C2: read-only, no additions, one override of priority 5
ExampleCall ==
    /\ ret.name = "read-only"
    /\ ret.additions = <<>>
    /\ Len(ret.overrides) = 1
    /\ Stated(1) = 5

\* C2 as amended: the general rule, and in the example the override keeps its
\* stated priority 5, which already exceeds read-only's maximum 0.
C2_BoostOnce ==
    ExtendReturned =>
        /\ BoostRuleHolds
        /\ ExampleCall => Contributed(1).priority = 5

\* C2 as stated: the general rule, and the example's override ends at priority 100.
C2_Original ==
    ExtendReturned =>
        /\ BoostRuleHolds
        /\ ExampleCall => Contributed(1).priority = 100

\* read-only with the negative override given twice: both are boosted to 100
C2_Witness ==
    /\ ExtendReturned
    /\ ret.name = "read-only"
    /\ ret.additions = <<>>
    /\ Len(ret.overrides) = 2
    /\ Stated(1) < 0 /\ Stated(2) = Stated(1)
    /\ Contributed(1).priority = 100 /\ Contributed(2).priority = 100

\* C3: the returned list is the base preset's rules in preset order, then every
\* addition in the given order with pattern, permission, kind and priority unchanged,
\* then every override in the given order with pattern, permission and kind
\* unchanged; nothing is dropped, deduplicated or reordered.
C3_OrderAndLength ==
    ExtendReturned =>
        LET base == GetPresetRules(PRESETS, ret.name)
            nb   == Len(base)
            na   == Len(ret.additions)
        IN  /\ Len(ret.rules) = nb + na + Len(ret.overrides)
            /\ \A i \in 1..nb : ret.rules[i] = base[i]
            /\ \A i \in 1..na : ret.rules[nb + i] = to_rule(ret.additions[i])
            /\ \A i \in 1..Len(ret.overrides) :
                   LET o == to_rule(ret.overrides[i])
                       r == ret.rules[nb + na + i]
                   IN  /\ r.pattern = o.pattern
                       /\ r.permission = o.permission
                       /\ r.type = o.type

\* agent-safe extended by the addition /output/** (a pattern the preset already
\* has), given twice, and by an override
C3_Witness ==
    /\ ExtendReturned
    /\ ret.name = "agent-safe"
    /\ Len(ret.additions) = 2
    /\ ret.additions[1] = ret.additions[2]
    /\ ret.additions[1].pattern = "/output/**"
    /\ Len(ret.overrides) = 1
    /\ Len(ret.rules) = 12

(***************************************************************************)
(* Claims about the registry.                                              *)
(***************************************************************************)
\* C4: register_preset with a name already present (built-in or registered before)
\* fails with the "already exists" error and leaves the registry unchanged: the name
\* still maps to the rules of its first registration and the names are the same.
C4_DuplicateRegisterRejected ==
    [][ (ret'.op = "register_preset" /\ Has(PRESETS, ret'.name)) =>
            /\ ret'.status = "ValueError"
            /\ ret'.msg.text = "already exists"
            /\ PRESETS' = PRESETS
            /\ Lookup(PRESETS', ret'.name) = firstRules[ret'.name]
            /\ Keys(PRESETS') = Keys(PRESETS) ]_vars

\* a second registration of a custom name with other rules was rejected
C4_Witness ==
    /\ ret.op = "register_preset"
    /\ ret.status = "ValueError"
    /\ ret.name \in registered
    /\ ret.arg # Lookup(PRESETS, ret.name)

\* C6: get_preset, get_preset_dicts and extend_preset with a name that is not in
\* the registry fail with the "Unknown preset" error, whose message names every
\* preset in the registry; no rule list is returned; the registry is unchanged.
C6_UnknownPreset ==
    [][ (ret'.op \in {"get_preset", "get_preset_dicts", "extend_preset"}
           /\ ~Has(PRESETS, ret'.name)) =>
            /\ ret'.status = "ValueError"
            /\ ret'.msg.text = "Unknown preset"
            /\ ret'.msg.name = ret'.name
            /\ Range(ret'.msg.available) = Range(Keys(PRESETS))
            /\ ret'.rules = <<>> /\ ret'.dicts = <<>>
            /\ PRESETS' = PRESETS ]_vars

\* an unknown name was looked up by extend_preset while a registered preset existed
C6_Witness ==
    /\ ret.op = "extend_preset"
    /\ ret.status = "ValueError"
    /\ ret.name = "nonexistent"
    /\ "my-custom" \in Range(ret.msg.available)
    /\ "view-only" \in Range(ret.msg.available)

\* C7: list_presets returns the names in ascending order without duplicates, and
\* they are exactly the five built-in names plus every name whose register_preset
\* call succeeded.
C7_ListSorted ==
    ret.op = "list_presets" =>
        /\ \A i \in 1..(Len(ret.names) - 1) : StrLess(ret.names[i], ret.names[i + 1])
        /\ Range(ret.names) = BuiltinNames \cup registered
        /\ Cardinality(BuiltinNames) = 5

\* both custom names are registered, "agent" after "my-custom", and listed
C7_Witness ==
    /\ ret.op = "list_presets"
    /\ registered = CustomNames
    /\ Keys(PRESETS)[Len(PRESETS)] = "agent"
    /\ ret.names[1] = "agent"

(***************************************************************************)
(* Claim about concurrent registration.                                    *)
(***************************************************************************)
RaceFinished(t) == rpc[t] \in {"done", "raised"}

\* C5: when two threads call register_preset with the same new name and different
\* rule lists, exactly one call succeeds, the other fails with the "already exists"
\* error, and the registry holds the rules of the call that succeeded.
C5_ExactlyOneRegistration ==
    \A t, u \in Threads :
        (/\ t # u
         /\ RaceFinished(t) /\ RaceFinished(u)
         /\ rcall[t].name = rcall[u].name
         /\ rcall[t].name \notin BuiltinNames
         /\ rcall[t].rules # rcall[u].rules)
        => \E w \in {t, u} :
              /\ rpc[w] = "done"
              /\ \A l \in {t, u} \ {w} : rpc[l] = "raised"
              /\ Lookup(PRESETS, rcall[w].name) = rcall[w].rules
(***************************************************************************)
(* utils.py: ignore patterns.  A pattern, a path and a line of an ignore   *)
(* file are tuples of characters.                                          *)
(***************************************************************************)
DEFAULT_IGNORE_PATTERNS == <<
    <<".","g","i","t">>,
    <<".","g","i","t","/","*","*">>,
    <<"_","_","p","y","c","a","c","h","e","_","_">>,
    <<"_","_","p","y","c","a","c","h","e","_","_","/","*","*">>,
    <<"*",".","p","y","c">>,
    <<"*",".","p","y","o">>,
    <<".","D","S","_","S","t","o","r","e">>,
    <<"T","h","u","m","b","s",".","d","b">>,
    <<"n","o","d","e","_","m","o","d","u","l","e","s">>,
    <<"n","o","d","e","_","m","o","d","u","l","e","s","/","*","*">>,
    <<".","v","e","n","v">>,
    <<".","v","e","n","v","/","*","*">>,
    <<"v","e","n","v">>,
    <<"v","e","n","v","/","*","*">>,
    <<".","e","n","v">>,
    <<"*",".","e","g","g","-","i","n","f","o">>,
    <<"*",".","e","g","g","-","i","n","f","o","/","*","*">>,
    <<".","t","o","x">>,
    <<".","t","o","x","/","*","*">>,
    <<".","p","y","t","e","s","t","_","c","a","c","h","e">>,
    <<".","p","y","t","e","s","t","_","c","a","c","h","e","/","*","*">>,
    <<".","m","y","p","y","_","c","a","c","h","e">>,
    <<".","m","y","p","y","_","c","a","c","h","e","/","*","*">>,
    <<".","r","u","f","f","_","c","a","c","h","e">>,
    <<".","r","u","f","f","_","c","a","c","h","e","/","*","*">> >>

StartsWith(s, c) == s # <<>> /\ Head(s) = c

EndsWith(s, c) == s # <<>> /\ s[Len(s)] = c

Whitespace == {" ", "\t", "\n", "\r"}

\* str.strip()
RECURSIVE LStrip(_)
LStrip(s) == IF s # <<>> /\ Head(s) \in Whitespace THEN LStrip(Tail(s)) ELSE s

RECURSIVE RStrip(_)
RStrip(s) ==
    IF s # <<>> /\ s[Len(s)] \in Whitespace THEN RStrip(SubSeq(s, 1, Len(s) - 1)) ELSE s

Strip(s) == RStrip(LStrip(s))

\* the loop of parse_ignore_file over the lines of a file that could be opened
RECURSIVE ParseLines(_)
ParseLines(lines) ==
    IF lines = <<>> THEN <<>>
    ELSE LET line == Strip(Head(lines))
         IN  IF line = <<>> \/ StartsWith(line, "#")
             THEN ParseLines(Tail(lines))
             ELSE <<line>> \o ParseLines(Tail(lines))

\* the "!" is dropped and the rest is kept as an ordinary pattern
_normalize_pattern_unnegated(pattern) ==
    LET p1 == IF StartsWith(pattern, "/") THEN Tail(pattern) ELSE pattern
        p2 == IF StartsWith(p1, "!") THEN Tail(p1) ELSE p1
    IN  IF EndsWith(p2, "/") THEN SubSeq(p2, 1, Len(p2) - 1) ELSE p2

\* _normalize_pattern: leading "/" removed, a negation gives "", trailing "/" removed
_normalize_pattern(pattern) ==
    LET p1 == IF StartsWith(pattern, "/") THEN Tail(pattern) ELSE pattern
    IN  IF StartsWith(p1, "!") THEN <<>>
        ELSE IF EndsWith(p1, "/") THEN SubSeq(p1, 1, Len(p1) - 1)
        ELSE p1

\* fnmatch.fnmatch on POSIX for patterns without "[": "*" matches any run of
\* characters ("/" included), "?" any one character, anything else itself
RECURSIVE fnmatch(_, _)
fnmatch(name, pat) ==
    IF pat = <<>> THEN name = <<>>
    ELSE IF Head(pat) = "*"
         THEN fnmatch(name, Tail(pat)) \/ (name # <<>> /\ fnmatch(Tail(name), pat))
    ELSE IF name = <<>> THEN FALSE
    ELSE (Head(pat) = "?" \/ Head(pat) = Head(name)) /\ fnmatch(Tail(name), Tail(pat))

\* what precedes the first "/"
BasenameIsHead(path) ==
    IF \E i \in 1..Len(path) : path[i] = "/"
    THEN SubSeq(path, 1, (CHOOSE i \in 1..Len(path) :
                             path[i] = "/" /\ \A j \in 1..(i - 1) : path[j] # "/") - 1)
    ELSE path

\* os.path.basename: what follows the last "/"
RECURSIVE Basename(_)
Basename(path) ==
    IF \E i \in 1..Len(path) : path[i] = "/"
    THEN Basename(SubSeq(path, (CHOOSE i \in 1..Len(path) : path[i] = "/") + 1, Len(path)))
    ELSE path

\* "**" in normalized
HasDoubleStar(p) == \E i \in 1..(Len(p) - 1) : p[i] = "*" /\ p[i + 1] = "*"

\* the pattern is tried on the whole relative path only
PatternIgnoresNoBasename(rel_path, pattern) ==
    LET normalized == _normalize_pattern(pattern)
    IN  /\ normalized # <<>>
        /\ fnmatch(rel_path, normalized)

\* the body of the loop of _should_ignore for one pattern
PatternIgnores(rel_path, pattern) ==
    LET normalized == _normalize_pattern(pattern)
    IN  /\ normalized # <<>>
        /\ \/ fnmatch(rel_path, normalized)
           \/ fnmatch(Basename(rel_path), normalized)
           \/ (HasDoubleStar(normalized) /\ fnmatch(rel_path, normalized))

_should_ignore(rel_path, pats) ==
    \E i \in 1..Len(pats) : PatternIgnores(rel_path, pats[i])

(***************************************************************************)
(* The directory tree that is walked.  An entry is named by its path       *)
(* relative to the root; Segments gives the path's components.             *)
(***************************************************************************)
Segments(e) ==
    CASE e = "a" -> <<<<"a">>>>
      [] e = "a/.git" -> <<<<"a">>, <<".","g","i","t">>>>
      [] e = "a/.git/x" -> <<<<"a">>, <<".","g","i","t">>, <<"x">>>>
      [] e = "a/.git/sub" -> <<<<"a">>, <<".","g","i","t">>, <<"s","u","b">>>>
      [] e = "a/.git/sub/z" -> <<<<"a">>, <<".","g","i","t">>, <<"s","u","b">>, <<"z">>>>
      [] e = "a/keep.txt" -> <<<<"a">>, <<"k","e","e","p",".","t","x","t">>>>
      [] e = "a/node_modules" -> <<<<"a">>, <<"n","o","d","e","_","m","o","d","u","l","e","s">>>>
      [] e = "a/node_modules/y.js" -> <<<<"a">>, <<"n","o","d","e","_","m","o","d","u","l","e","s">>, <<"y",".","j","s">>>>
      [] e = "big.bin" -> <<<<"b","i","g",".","b","i","n">>>>
      [] e = "m.pyc" -> <<<<"m",".","p","y","c">>>>
      [] e = ".gitignore" -> <<<<".","g","i","t","i","g","n","o","r","e">>>>
      [] e = ".sandboxignore" -> <<<<".","s","a","n","d","b","o","x","i","g","n","o","r","e">>>>

Dirs == {"a", "a/.git", "a/.git/sub", "a/node_modules"}

\* the tree of the example: a/.git/x, a/keep.txt, a/node_modules/y.js
ExampleTree == {"a", "a/.git", "a/.git/x", "a/keep.txt",
                "a/node_modules", "a/node_modules/y.js"}

FullTree == ExampleTree \cup {"a/.git/sub", "a/.git/sub/z", "big.bin", "m.pyc"}

RECURSIVE JoinSlash(_)
JoinSlash(segs) ==
    IF Len(segs) = 1 THEN segs[1]
    ELSE segs[1] \o <<"/">> \o JoinSlash(Tail(segs))

\* str(current_path.relative_to(root_path))
RelPath(e) == JoinSlash(Segments(e))

\* current_path.is_relative_to(d)
IsRelativeTo(e, d) ==
    /\ Len(Segments(d)) <= Len(Segments(e))
    /\ SubSeq(Segments(e), 1, Len(Segments(d))) = Segments(d)

\* d is the directory that contains e
IsParent(d, e) ==
    /\ Len(Segments(d)) + 1 = Len(Segments(e))
    /\ IsRelativeTo(e, d)
(***************************************************************************)
(* SpecWalk: one call of walk_directory, consumed to its end.              *)
(*                                                                         *)
(* fs   = [tree, size, access, gitignore, sandboxignore]: the entries of   *)
(*        the tree, each file's size, whether stat() and read_bytes() of a *)
(*        file succeed, and for each ignore file whether it is "missing",  *)
(*        "readable" or "unreadable";                                      *)
(* cfg  = [include_default_ignores, ignore_patterns, max_file_size].       *)
(***************************************************************************)
MaxFileSize == 2    \* the max_file_size passed to walk_directory

GitignoreLines == << <<"#"," ","l","o","c","a","l","\n">>, <<"\n">>, <<"y",".","j","s","\n">> >>

SandboxignoreLines == << <<" "," ","b","i","g",".","b","i","n"," ","\n">>, <<"!","m",".","p","y","c">> >>

\* the caller's ignore_patterns: none, or one anchored directory pattern
CallerPatterns == { <<>>, << <<"/","a","/",".","g","i","t","/">> >> }

IgnoreFileStates == {
    [gitignore |-> "missing",    sandboxignore |-> "missing"],
    [gitignore |-> "readable",   sandboxignore |-> "missing"],
    [gitignore |-> "missing",    sandboxignore |-> "readable"],
    [gitignore |-> "unreadable", sandboxignore |-> "missing"],
    [gitignore |-> "missing",    sandboxignore |-> "unreadable"] }

\* the number of characters of a file given by its lines
RECURSIVE TotalLen(_)
TotalLen(lines) ==
    IF lines = <<>> THEN 0 ELSE Len(Head(lines)) + TotalLen(Tail(lines))

\* every entry under the root: the tree, and the ignore files that exist
Present ==
    fs.tree
      \cup (IF fs.gitignore # "missing" THEN {".gitignore"} ELSE {})
      \cup (IF fs.sandboxignore # "missing" THEN {".sandboxignore"} ELSE {})

Files == Present \ Dirs

\* current_path.read_bytes(): the whole file, size bytes
Content(e) == [i \in 1..fs.size[e] |-> e]

WalkInit ==
    /\ wpc = "init"
    /\ \E tree \in {ExampleTree, FullTree} :
       \E big \in {MaxFileSize, MaxFileSize + 1} :
       \E acc \in {"ok", "stat_fails", "read_fails"} :
       \E ign \in IgnoreFileStates :
          fs = [tree |-> tree,
                size |-> [e \in (FullTree \cup {".gitignore", ".sandboxignore"}) \ Dirs |->
                             IF e = "big.bin" THEN big
                             ELSE IF e = "a/node_modules/y.js" THEN MaxFileSize
                             ELSE IF e = ".gitignore" THEN TotalLen(GitignoreLines)
                             ELSE IF e = ".sandboxignore" THEN TotalLen(SandboxignoreLines)
                             ELSE 1],
                access |-> [e \in (FullTree \cup {".gitignore", ".sandboxignore"}) \ Dirs |->
                             IF e = "a/keep.txt" THEN acc ELSE "ok"],
                gitignore |-> ign.gitignore,
                sandboxignore |-> ign.sandboxignore]
    /\ \E d \in BOOLEAN : \E pats \in CallerPatterns :
          cfg = [include_default_ignores |-> d, ignore_patterns |-> pats,
                 max_file_size |-> MaxFileSize]
    /\ patterns = <<>>
    /\ delivered = {}
    /\ ignored_dirs = {}
    /\ yielded = <<>>
    /\ skipped = {}

\* parse_ignore_file(root/ignore_file) guarded by ignore_path.exists()
IgnoreFilePatterns(state, lines) ==
    IF state = "readable" THEN ParseLines(lines) ELSE <<>>

\* lines 158-174: the pattern list is built; open() of an ignore file that exists
\* but cannot be read raises out of walk_directory
WalkStart ==
    /\ wpc = "init"
    /\ IF "unreadable" \in {fs.gitignore, fs.sandboxignore}
       THEN /\ wpc' = "raised"
            /\ UNCHANGED patterns
       ELSE /\ wpc' = "loop"
            /\ patterns' =
                 (IF cfg.include_default_ignores THEN DEFAULT_IGNORE_PATTERNS ELSE <<>>)
                   \o cfg.ignore_patterns
                   \o IgnoreFilePatterns(fs.gitignore, GitignoreLines)
                   \o IgnoreFilePatterns(fs.sandboxignore, SandboxignoreLines)
    /\ UNCHANGED <<fs, cfg, delivered, ignored_dirs, yielded, skipped>>
    /\ UNCHANGED <<registryVars, raceVars, matchVars, provVars, lifeVars>>

\* only the directory that contains the file is looked up
UnderIgnoredParentOnly(e, ign) == \E d \in ign : IsParent(d, e)

\* any(current_path.is_relative_to(d) for d in ignored_dirs)
UnderIgnored(e, ign) == \E d \in ign : IsRelativeTo(e, d)

\* the comparison written as >=
TooLargeInclusive(size, max_file_size) == size >= max_file_size

\* if size > max_file_size: continue
TooLarge(size, max_file_size) == size > max_file_size

\* the handler lets the error leave the generator
AfterAccessErrorRaises(pc) == "raised"

\* except OSError: continue (stat, line 198) and
\* except (IOError, PermissionError): continue (read_bytes, line 207)
AfterAccessError(pc) == pc

\* one iteration of `for current_path in root_path.rglob("*")`, lines 176-209.
\* rglob delivers a directory before any entry below it; the order of the other
\* entries is left open.
WalkStep(e) ==
    /\ wpc = "loop"
    /\ e \in Present \ delivered
    /\ \A d \in Present \cap Dirs : IsParent(d, e) => d \in delivered
    /\ delivered' = delivered \cup {e}
    /\ IF e \in Dirs
       THEN /\ ignored_dirs' = IF _should_ignore(RelPath(e), patterns)
                               THEN ignored_dirs \cup {e} ELSE ignored_dirs
            /\ UNCHANGED <<wpc, yielded, skipped>>
       ELSE /\ UNCHANGED ignored_dirs
            /\ IF \/ UnderIgnored(e, ignored_dirs)
                  \/ _should_ignore(RelPath(e), patterns)
               THEN UNCHANGED <<wpc, yielded, skipped>>
               ELSE IF fs.access[e] = "stat_fails"
               THEN /\ wpc' = AfterAccessError(wpc)
                    /\ UNCHANGED <<yielded, skipped>>
               ELSE IF TooLarge(fs.size[e], cfg.max_file_size)
               THEN /\ skipped' = skipped \cup {[file |-> e, at |-> Len(yielded)]}
                    /\ UNCHANGED <<wpc, yielded>>
               ELSE IF fs.access[e] = "read_fails"
               THEN /\ wpc' = AfterAccessError(wpc)
                    /\ UNCHANGED <<yielded, skipped>>
               ELSE /\ yielded' = Append(yielded, [rel_path |-> RelPath(e),
                                                   content |-> Content(e)])
                    /\ UNCHANGED <<wpc, skipped>>
    /\ UNCHANGED <<fs, cfg, patterns>>
    /\ UNCHANGED <<registryVars, raceVars, matchVars, provVars, lifeVars>>

\* rglob is exhausted and the generator returns
WalkFinish ==
    /\ wpc = "loop"
    /\ delivered = Present
    /\ wpc' = "done"
    /\ UNCHANGED <<fs, cfg, patterns, delivered, ignored_dirs, yielded, skipped>>
    /\ UNCHANGED <<registryVars, raceVars, matchVars, provVars, lifeVars>>

InitWalk == RegistryInit /\ RaceIdle /\ WalkInit /\ MatchIdle /\ ProvIdle /\ LifeIdle

NextWalk ==
    \/ WalkStart
    \/ \E e \in FullTree \cup {".gitignore", ".sandboxignore"} : WalkStep(e)
    \/ WalkFinish

SpecWalk == InitWalk /\ [][NextWalk]_vars
(***************************************************************************)
(* Claims about walk_directory.                                            *)
(***************************************************************************)
YieldedPaths == {yielded[i].rel_path : i \in 1..Len(yielded)}

\* the directories strictly above e
Ancestors(e) == {d \in Present \cap Dirs : d # e /\ IsRelativeTo(e, d)}

IgnoredAncestor(e) ==
    \E d \in Ancestors(e) : _should_ignore(RelPath(d), patterns)

\* C8: if a directory's path relative to the root matches an ignore pattern, no
\* file at any depth below it is yielded, whether or not the file or the
\* directories in between match a pattern, in every order of enumeration.
C8_PrunedSubtree ==
    \A d \in Present \cap Dirs :
        _should_ignore(RelPath(d), patterns) =>
            \A e \in Files : d \in Ancestors(e) => RelPath(e) \notin YieldedPaths

\* a/.git was pruned by the caller's pattern alone; a/.git/sub and a/.git/sub/z
\* match no pattern themselves, z was delivered and is readable and small
C8_Witness ==
    /\ wpc = "done"
    /\ ~cfg.include_default_ignores
    /\ "a/.git" \in ignored_dirs
    /\ "a/.git/sub" \in delivered \ ignored_dirs
    /\ "a/.git/sub/z" \in delivered
    /\ ~_should_ignore(RelPath("a/.git/sub/z"), patterns)
    /\ Len(yielded) > 0

\* the files walk_directory is to yield
Eligible ==
    {e \in Files :
        /\ ~IgnoredAncestor(e)
        /\ ~_should_ignore(RelPath(e), patterns)
        /\ fs.size[e] <= cfg.max_file_size
        /\ fs.access[e] = "ok"}

\* the call of the example: the tree a/.git/x, a/keep.txt, a/node_modules/y.js,
\* the default ignores and nothing else
ExampleWalk ==
    /\ fs.tree = ExampleTree
    /\ fs.gitignore = "missing" /\ fs.sandboxignore = "missing"
    /\ fs.access["a/keep.txt"] = "ok"
    /\ cfg.include_default_ignores
    /\ cfg.ignore_patterns = <<>>

\* C9: a finished walk has yielded exactly the files that have no ancestor
\* directory matching an ignore pattern, match none themselves, are not larger than
\* max_file_size and are readable, each once, with its root-relative path and its
\* full content; no directory is yielded; the example yields exactly a/keep.txt.
C9_ExactlyEligible ==
    wpc = "done" =>
        /\ Range(yielded) =
             {[rel_path |-> RelPath(e), content |-> Content(e)] : e \in Eligible}
        /\ Len(yielded) = Cardinality(Eligible)
        /\ \A i \in 1..Len(yielded) : Len(yielded[i].content) = fs.size[
               CHOOSE e \in Files : RelPath(e) = yielded[i].rel_path]
        /\ \A d \in Present \cap Dirs : RelPath(d) \notin YieldedPaths
        /\ ExampleWalk => YieldedPaths = {RelPath("a/keep.txt")}

\* the example's walk has finished
C9_Witness ==
    /\ wpc = "done"
    /\ ExampleWalk
    /\ delivered = ExampleTree
    /\ "a/.git" \in ignored_dirs /\ "a/node_modules" \in ignored_dirs
    /\ Len(yielded) = 1

\* C10: a file larger than max_file_size is never yielded and raises no error, a
\* file of exactly max_file_size is yielded, and the skip does not stop the walk:
\* every other eligible file, before or after it, is still yielded.
C10_OversizedSkipped ==
    /\ \A i \in 1..Len(yielded) : Len(yielded[i].content) <= cfg.max_file_size
    /\ skipped # {} => wpc # "raised"
    /\ \A s \in skipped : fs.size[s.file] > cfg.max_file_size
    /\ wpc = "done" =>
         \A e \in Files :
            (/\ ~IgnoredAncestor(e)
             /\ ~_should_ignore(RelPath(e), patterns)
             /\ fs.access[e] = "ok"
             /\ fs.size[e] <= cfg.max_file_size)
            => \E i \in 1..Len(yielded) :
                  /\ yielded[i].rel_path = RelPath(e)
                  /\ Len(yielded[i].content) = fs.size[e]

\* big.bin was skipped as oversized after one file had been yielded and before
\* another was, the walk finished, and a/node_modules/y.js, whose size is exactly
\* max_file_size, was yielded
C10_Witness ==
    /\ wpc = "done"
    /\ fs.size["big.bin"] = cfg.max_file_size + 1
    /\ \E s \in skipped :
          /\ s.file = "big.bin"
          /\ s.at > 0
          /\ Len(yielded) > s.at
    /\ fs.size["a/node_modules/y.js"] = cfg.max_file_size
    /\ RelPath("a/node_modules/y.js") \in YieldedPaths

\* the files whose stat() or read_bytes() fails
Unreadable == {e \in Files : fs.access[e] # "ok"}

\* C11: a file whose stat or read fails is skipped without an error leaving the
\* walk, and the walk goes on: it yields every other eligible file, delivered
\* before or after the failing one.
C11_UnreadableSkipped ==
    /\ \A e \in Unreadable : RelPath(e) \notin YieldedPaths
    /\ wpc = "raised" => delivered = {}
    /\ wpc = "done" =>
         \A e \in Files \ Unreadable :
            (/\ ~IgnoredAncestor(e)
             /\ ~_should_ignore(RelPath(e), patterns)
             /\ fs.size[e] <= cfg.max_file_size)
            => RelPath(e) \in YieldedPaths

\* reading a/keep.txt failed after one file had been yielded, the walk finished
\* and yielded m.pyc and a/.git/x around it
C11_Witness ==
    /\ wpc = "done"
    /\ fs.access["a/keep.txt"] = "read_fails"
    /\ ~cfg.include_default_ignores
    /\ cfg.ignore_patterns = <<>>
    /\ "a/keep.txt" \in delivered
    /\ RelPath("a/keep.txt") \notin YieldedPaths
    /\ RelPath("m.pyc") \in YieldedPaths
    /\ RelPath("a/.git/x") \in YieldedPaths

\* C12: an ignore file that exists but cannot be read is treated like a missing
\* one: it contributes no pattern, the walk raises no error and goes on to yield
\* the files it yields when the ignore file is absent.
C12_UnreadableIgnoreFileAsMissing ==
    "unreadable" \in {fs.gitignore, fs.sandboxignore} =>
        /\ wpc # "raised"
        /\ wpc \in {"loop", "done"} =>
             patterns = (IF cfg.include_default_ignores
                         THEN DEFAULT_IGNORE_PATTERNS ELSE <<>>) \o cfg.ignore_patterns

\* the patterns of a list that do not begin with "!"
NonNegated(pats) == SelectSeq(pats, LAMBDA p : ~StartsWith(p, "!"))

\* the files a walk with the pattern list pats is to yield
EligibleWith(pats) ==
    {e \in Files :
        /\ ~\E d \in Ancestors(e) : _should_ignore(RelPath(d), pats)
        /\ ~_should_ignore(RelPath(e), pats)
        /\ fs.size[e] <= cfg.max_file_size
        /\ fs.access[e] = "ok"}

\* C13: a pattern beginning with "!" is accepted without error and matches no
\* path, so it neither excludes a file nor re-includes one another pattern
\* excludes: the walk with the pattern set S plus negated patterns yields the
\* files the walk with S alone yields.
C13_NegationNeverMatches ==
    wpc \in {"loop", "done"} =>
        /\ \A i \in 1..Len(patterns) : StartsWith(patterns[i], "!") =>
              \A e \in Present : ~PatternIgnores(RelPath(e), patterns[i])
        /\ \A e \in Present :
              _should_ignore(RelPath(e), patterns)
                 = _should_ignore(RelPath(e), NonNegated(patterns))
        /\ wpc = "done" =>
              YieldedPaths = {RelPath(e) : e \in EligibleWith(NonNegated(patterns))}

\* .sandboxignore holds "!m.pyc" and no other pattern names m.pyc: the finished
\* walk has yielded m.pyc
C13_Witness ==
    /\ wpc = "done"
    /\ fs.sandboxignore = "readable"
    /\ ~cfg.include_default_ignores
    /\ \E i \in 1..Len(patterns) : patterns[i] = <<"!", "m", ".", "p", "y", "c">>
    /\ RelPath("m.pyc") \in YieldedPaths

(***************************************************************************)
(* SpecMatch: _should_ignore asked about one path and one pattern.  The    *)
(* path is kept as its segments; the caller may ask again about the same   *)
(* path below one more directory.                                          *)
(***************************************************************************)
MaxSegments == 3    \* the longest path asked about, in segments

\* the final segments (files and directories) and the directory segments
MatchNames == {<<"x", ".", "p", "y">>,
               <<"a", ".", "l", "o", "g">>,
               <<"s", "u", "b">>,
               <<"n", "o", "d", "e", "_", "m", "o", "d", "u", "l", "e", "s">>}

MatchDirs == {<<"s", "r", "c">>,
              <<"s", "u", "b">>,
              <<"n", "o", "d", "e", "_", "m", "o", "d", "u", "l", "e", "s">>}

\* the patterns, as the user writes them
MatchPatterns == {<<"*", ".", "p", "y">>,
                  <<"s", "r", "c", "/", "*", ".", "p", "y">>,
                  <<"/", "s", "r", "c", "/", "*", ".", "p", "y">>,
                  <<"*", "*", "/", "*", ".", "p", "y">>,
                  <<"s", "r", "c", "/", "*", "*">>,
                  <<"x", ".", "p", "y">>,
                  <<"n", "o", "d", "e", "_", "m", "o", "d", "u", "l", "e", "s", "/">>,
                  <<"/", "n", "o", "d", "e", "_", "m", "o", "d", "u", "l", "e", "s", "/">>,
                  <<"!", "x", ".", "p", "y">>,
                  <<"?", ".", "p", "y">>,
                  <<"s", "*">>,
                  <<"*", ".", "l", "o", "g">>,
                  <<"s", "u", "b">>,
                  <<"/">>}

MatchInit ==
    /\ mpath \in {<<n>> : n \in MatchNames}
    /\ mpat \in MatchPatterns
    /\ mres = "none"

\* _should_ignore(rel_path, [pattern]) returns
MatchCall ==
    /\ mres = "none"
    /\ mres' = IF _should_ignore(JoinSlash(mpath), <<mpat>>) THEN "ignored" ELSE "kept"
    /\ UNCHANGED <<mpath, mpat>>
    /\ UNCHANGED <<registryVars, raceVars, walkVars, provVars, lifeVars>>

\* the next question is about the same path one directory deeper
MatchPrepend(seg) ==
    /\ mres # "none"
    /\ Len(mpath) < MaxSegments
    /\ mpath' = <<seg>> \o mpath
    /\ mres' = "none"
    /\ UNCHANGED mpat
    /\ UNCHANGED <<registryVars, raceVars, walkVars, provVars, lifeVars>>

InitMatch == RegistryInit /\ RaceIdle /\ WalkIdle /\ MatchInit /\ ProvIdle /\ LifeIdle

NextMatch ==
    \/ MatchCall
    \/ \E seg \in MatchDirs : MatchPrepend(seg)

SpecMatch == InitMatch /\ [][NextMatch]_vars

(***************************************************************************)
(* Claims about _should_ignore.                                            *)
(***************************************************************************)
\* the final segment of the path asked about
LastSegment == mpath[Len(mpath)]

\* C14: _should_ignore is true of a path and a pattern exactly when the
\* normalized pattern matches the whole relative path or its final segment alone;
\* hence a pattern that matches a path's basename matches the path below any
\* further directories.
C14_WholePathOrBasename ==
    LET n == _normalize_pattern(mpat)
    IN  /\ mres # "none" =>
             ((mres = "ignored") <=>
                  (fnmatch(JoinSlash(mpath), n) \/ fnmatch(LastSegment, n)))
        /\ fnmatch(LastSegment, n) =>
             \A seg \in MatchDirs :
                 _should_ignore(JoinSlash(<<seg>> \o mpath), <<mpat>>)

\* the pattern x.py does not match the whole path src/sub/x.py but its basename; the
\* path was reported as ignored after two directories had been prepended
C14_Witness ==
    /\ mpat = <<"x", ".", "p", "y">>
    /\ mpath = <<<<"s", "r", "c">>, <<"s", "u", "b">>, <<"x", ".", "p", "y">>>>
    /\ ~fnmatch(JoinSlash(mpath), _normalize_pattern(mpat))
    /\ mres = "ignored"

\* the number of "/" of a string
RECURSIVE Slashes(_)
Slashes(s) ==
    IF s = <<>> THEN 0 ELSE (IF Head(s) = "/" THEN 1 ELSE 0) + Slashes(Tail(s))

\* C15: a single "*" never matches a run of characters containing "/": a pattern
\* without "**" that matches a path as a whole (not by its basename) has as many
\* segments as the path; src/*.py does not match src/sub/x.py.
C15_StarStaysInSegment ==
    LET n == _normalize_pattern(mpat)
    IN  /\ (mres = "ignored" /\ ~HasDoubleStar(n) /\ ~fnmatch(LastSegment, n))
              => Slashes(n) = Len(mpath) - 1
        /\ (/\ mpat = <<"s", "r", "c", "/", "*", ".", "p", "y">>
            /\ mpath = <<<<"s", "r", "c">>, <<"s", "u", "b">>, <<"x", ".", "p", "y">>>>
            /\ mres # "none")
              => mres = "kept"

(***************************************************************************)
(* SpecProvision: one call of from_local, of Sandbox (sandbox_sdk/         *)
(* sandbox.py, "sync") or of AsyncSandbox (sandbox_rls/_async/sandbox.py,  *)
(* "async").  Every call on the client is one step and may fail; a failed  *)
(* call changes nothing on the service.  An error is named after the step  *)
(* that raised it.                                                         *)
(*                                                                         *)
(* pin    = [impl, path, preset, auto_start, entries, walk]: path is       *)
(*          "dir", "file" or "missing"; entries is the number of pairs     *)
(*          walk_directory yields; walk is "yields" or "raises" (the walk  *)
(*          raises at its first next(), before any pair).                  *)
(*          preset is what the caller passed: "omitted", "None" or a name. *)
(* plocal = [client, codebase, sandbox_info, uploaded, perm_rules, exc,    *)
(*          original]: exc is the exception in flight, original the first  *)
(*          raised.                                                        *)
(* plog   = the calls on the client, each [call, arg, ok].                 *)
(* psvc   = [codebase, sandbox]: what exists on the service.               *)
(***************************************************************************)
MaxEntries == 2    \* the most pairs the walk yields

Impls == {"sync", "async"}

\* the preset argument: not passed, None, the name of a preset, an unknown name
PresetArgs == {"omitted", "None", "view-only", "no-such-preset"}

\* the value of `preset` when get_preset_dicts is called: the default of the
\* parameter is "agent-safe" in Sandbox and "view-only" in AsyncSandbox, and only
\* AsyncSandbox replaces None by "view-only"
EffectivePreset(impl, preset) ==
    IF preset = "omitted" THEN (IF impl = "sync" THEN "agent-safe" ELSE "view-only")
    ELSE IF preset = "None" /\ impl = "async" THEN "view-only"
    ELSE preset

ProvInit ==
    /\ ppc = "start"
    /\ pin \in [impl : Impls,
                path : {"dir", "file", "missing"},
                preset : PresetArgs,
                auto_start : BOOLEAN,
                entries : 0..MaxEntries,
                walk : {"yields", "raises"}]
    /\ plocal = [client |-> "none", codebase |-> FALSE, sandbox_info |-> FALSE,
                 uploaded |-> 0, perm_rules |-> <<>>, exc |-> "none",
                 original |-> "none"]
    /\ plog = <<>>
    /\ psvc = [codebase |-> FALSE, sandbox |-> "none"]
    /\ perr = "none"

\* one call on the client, as the log keeps it
Call(name, arg, ok) == [call |-> name, arg |-> arg, ok |-> ok]

\* only dir_path.exists() is tested
PathIsValidExists(kind) == kind # "missing"

\* dir_path.exists() and dir_path.is_dir()
PathIsValid(kind) == kind = "dir"

\* where control goes when an exception reaches the handler of the outer try:
\* sync closes the client; async destroys the sandbox if sandbox_info is set,
\* deletes the codebase if codebase is set, then closes the client
HandlerEntry(impl, loc) ==
    IF impl = "sync" THEN "h_close"
    ELSE IF loc.sandbox_info THEN "h_destroy"
    ELSE IF loc.codebase THEN "h_delete"
    ELSE "h_close"

\* the locals once the step `step` has raised
Raise(loc, step) ==
    [loc EXCEPT !.exc = step,
                !.original = IF loc.original = "none" THEN step ELSE loc.original]

\* Path(path).resolve(); exists(); is_dir(): raise ValueError
ValidatePath ==
    /\ ppc = "start"
    /\ IF PathIsValid(pin.path)
       THEN /\ ppc' = "client"
            /\ UNCHANGED <<plocal, perr>>
       ELSE /\ ppc' = "raised"
            /\ plocal' = Raise(plocal, "validate_path")
            /\ perr' = "validate_path"
    /\ UNCHANGED <<pin, plog, psvc>>
    /\ UNCHANGED <<registryVars, raceVars, walkVars, matchVars, lifeVars>>

\* client = SandboxClient(endpoint=endpoint, secure=secure)
CreateClient ==
    /\ ppc = "client"
    /\ plocal' = [plocal EXCEPT !.client = "open"]
    /\ ppc' = "create_codebase"
    /\ UNCHANGED <<pin, plog, psvc, perr>>
    /\ UNCHANGED <<registryVars, raceVars, walkVars, matchVars, lifeVars>>

\* codebase = client.create_codebase(name=codebase_name, owner_id=owner_id)
CreateCodebase(ok) ==
    /\ ppc = "create_codebase"
    /\ plog' = Append(plog, Call("create_codebase", 0, ok))
    /\ IF ok
       THEN /\ plocal' = [plocal EXCEPT !.codebase = TRUE]
            /\ psvc' = [psvc EXCEPT !.codebase = TRUE]
            /\ ppc' = "upload"
       ELSE /\ plocal' = Raise(plocal, "create_codebase")
            /\ ppc' = HandlerEntry(pin.impl, plocal)
            /\ UNCHANGED psvc
    /\ UNCHANGED <<pin, perr>>
    /\ UNCHANGED <<registryVars, raceVars, walkVars, matchVars, lifeVars>>

\* walk_directory(str(dir_path), ignore_patterns) raises at its first next()
WalkRaises ==
    /\ ppc = "upload"
    /\ pin.walk = "raises"
    /\ plocal' = Raise(plocal, "walk_directory")
    /\ ppc' = HandlerEntry(pin.impl, plocal)
    /\ UNCHANGED <<pin, plog, psvc, perr>>
    /\ UNCHANGED <<registryVars, raceVars, walkVars, matchVars, lifeVars>>

\* a failed upload is passed over and the loop goes on with the next pair
UploadFileContinues(ok) ==
    /\ ppc = "upload"
    /\ pin.walk = "yields"
    /\ plocal.uploaded < pin.entries
    /\ plog' = Append(plog, Call("upload_file", plocal.uploaded + 1, ok))
    /\ plocal' = [plocal EXCEPT !.uploaded = @ + 1]
    /\ UNCHANGED <<ppc, pin, psvc, perr>>
    /\ UNCHANGED <<registryVars, raceVars, walkVars, matchVars, lifeVars>>

\* the walk yields its next pair; client.upload_file(codebase.id, rel_path, content)
UploadFile(ok) ==
    /\ ppc = "upload"
    /\ pin.walk = "yields"
    /\ plocal.uploaded < pin.entries
    /\ plog' = Append(plog, Call("upload_file", plocal.uploaded + 1, ok))
    /\ IF ok
       THEN /\ plocal' = [plocal EXCEPT !.uploaded = @ + 1]
            /\ UNCHANGED ppc
       ELSE /\ plocal' = Raise(plocal, "upload_file")
            /\ ppc' = HandlerEntry(pin.impl, plocal)
    /\ UNCHANGED <<pin, psvc, perr>>
    /\ UNCHANGED <<registryVars, raceVars, walkVars, matchVars, lifeVars>>

\* the walk is exhausted; perm_rules.extend(get_preset_dicts(preset)), the call
\* passing no `permissions`.  On ValueError the sync version runs its own
\* handler (lines 170-174) first.
ComposePermissions ==
    /\ ppc = "upload"
    /\ pin.walk = "yields"
    /\ plocal.uploaded = pin.entries
    /\ IF Has(PRESETS, EffectivePreset(pin.impl, pin.preset))
       THEN /\ ppc' = "create_sandbox"
            /\ plocal' = [plocal EXCEPT !.perm_rules =
                              Lookup(PRESETS, EffectivePreset(pin.impl, pin.preset))]
       ELSE /\ plocal' = Raise(plocal, "get_preset_dicts")
            /\ ppc' = IF pin.impl = "sync" THEN "inner_delete"
                      ELSE HandlerEntry(pin.impl, plocal)
    /\ UNCHANGED <<pin, plog, psvc, perr>>
    /\ UNCHANGED <<registryVars, raceVars, walkVars, matchVars, lifeVars>>

\* sync, line 172: client.delete_codebase(codebase.id), not guarded
InnerDeleteCodebase(ok) ==
    /\ ppc = "inner_delete"
    /\ plog' = Append(plog, Call("delete_codebase", 0, ok))
    /\ IF ok
       THEN /\ psvc' = [psvc EXCEPT !.codebase = FALSE]
            /\ ppc' = "inner_close"
            /\ UNCHANGED plocal
       ELSE /\ plocal' = Raise(plocal, "delete_codebase")
            /\ ppc' = HandlerEntry(pin.impl, plocal)
            /\ UNCHANGED psvc
    /\ UNCHANGED <<pin, perr>>
    /\ UNCHANGED <<registryVars, raceVars, walkVars, matchVars, lifeVars>>

\* sync, lines 173-174: client.close() and raise e; either way the exception
\* reaches the outer handler
InnerClose(ok) ==
    /\ ppc = "inner_close"
    /\ plog' = Append(plog, Call("close", 0, ok))
    /\ plocal' = IF ok THEN [plocal EXCEPT !.client = "closed"]
                 ELSE Raise(plocal, "close")
    /\ ppc' = HandlerEntry(pin.impl, plocal)
    /\ UNCHANGED <<pin, psvc, perr>>
    /\ UNCHANGED <<registryVars, raceVars, walkVars, matchVars, lifeVars>>

\* every sandbox is started
AfterCreateSandboxAlwaysStart(auto_start) == "start_sandbox"

\* if auto_start: start_sandbox; else return cls(...)
AfterCreateSandbox(auto_start) == IF auto_start THEN "start_sandbox" ELSE "returned"

\* sandbox_info = client.create_sandbox(codebase_id=codebase.id, ...)
CreateSandbox(ok) ==
    /\ ppc = "create_sandbox"
    /\ plog' = Append(plog, Call("create_sandbox", 0, ok))
    /\ IF ok
       THEN /\ plocal' = [plocal EXCEPT !.sandbox_info = TRUE]
            /\ psvc' = [psvc EXCEPT !.sandbox = "pending"]
            /\ ppc' = AfterCreateSandbox(pin.auto_start)
       ELSE /\ plocal' = Raise(plocal, "create_sandbox")
            /\ ppc' = HandlerEntry(pin.impl, plocal)
            /\ UNCHANGED psvc
    /\ UNCHANGED <<pin, perr>>
    /\ UNCHANGED <<registryVars, raceVars, walkVars, matchVars, lifeVars>>

\* sandbox_info = client.start_sandbox(sandbox_info.id); return cls(...).  When
\* the call raises, sandbox_info keeps the result of create_sandbox.
StartSandbox(ok) ==
    /\ ppc = "start_sandbox"
    /\ plog' = Append(plog, Call("start_sandbox", 0, ok))
    /\ IF ok
       THEN /\ psvc' = [psvc EXCEPT !.sandbox = "running"]
            /\ ppc' = "returned"
            /\ UNCHANGED plocal
       ELSE /\ plocal' = Raise(plocal, "start_sandbox")
            /\ ppc' = HandlerEntry(pin.impl, plocal)
            /\ UNCHANGED psvc
    /\ UNCHANGED <<pin, perr>>
    /\ UNCHANGED <<registryVars, raceVars, walkVars, matchVars, lifeVars>>

\* async, lines 202-206: try: await client.destroy_sandbox(sandbox_info.id)
\* except Exception: pass
HandlerDestroySandbox(ok) ==
    /\ ppc = "h_destroy"
    /\ plog' = Append(plog, Call("destroy_sandbox", 0, ok))
    /\ psvc' = IF ok THEN [psvc EXCEPT !.sandbox = "none"] ELSE psvc
    /\ ppc' = IF plocal.codebase THEN "h_delete" ELSE "h_close"
    /\ UNCHANGED <<pin, plocal, perr>>
    /\ UNCHANGED <<registryVars, raceVars, walkVars, matchVars, lifeVars>>

\* async, lines 208-212: try: await client.delete_codebase(codebase.id)
\* except Exception: pass
HandlerDeleteCodebase(ok) ==
    /\ ppc = "h_delete"
    /\ plog' = Append(plog, Call("delete_codebase", 0, ok))
    /\ psvc' = IF ok THEN [psvc EXCEPT !.codebase = FALSE] ELSE psvc
    /\ ppc' = "h_close"
    /\ UNCHANGED <<pin, plocal, perr>>
    /\ UNCHANGED <<registryVars, raceVars, walkVars, matchVars, lifeVars>>

\* client.close() and raise (sync 202-203, async 213-214): close is not guarded,
\* so when it raises, its error is the one that leaves from_local
HandlerClose(ok) ==
    /\ ppc = "h_close"
    /\ plog' = Append(plog, Call("close", 0, ok))
    /\ plocal' = IF ok THEN [plocal EXCEPT !.client = "closed"]
                 ELSE Raise(plocal, "close")
    /\ perr' = IF ok THEN plocal.exc ELSE "close"
    /\ ppc' = "raised"
    /\ UNCHANGED <<pin, psvc>>
    /\ UNCHANGED <<registryVars, raceVars, walkVars, matchVars, lifeVars>>

InitProvision == RegistryInit /\ RaceIdle /\ WalkIdle /\ MatchIdle /\ ProvInit /\ LifeIdle

NextProvision ==
    \/ ValidatePath
    \/ CreateClient
    \/ \E ok \in BOOLEAN : CreateCodebase(ok)
    \/ WalkRaises
    \/ \E ok \in BOOLEAN : UploadFile(ok)
    \/ ComposePermissions
    \/ \E ok \in BOOLEAN : InnerDeleteCodebase(ok)
    \/ \E ok \in BOOLEAN : InnerClose(ok)
    \/ \E ok \in BOOLEAN : CreateSandbox(ok)
    \/ \E ok \in BOOLEAN : StartSandbox(ok)
    \/ \E ok \in BOOLEAN : HandlerDestroySandbox(ok)
    \/ \E ok \in BOOLEAN : HandlerDeleteCodebase(ok)
    \/ \E ok \in BOOLEAN : HandlerClose(ok)

SpecProvision == InitProvision /\ [][NextProvision]_vars

(***************************************************************************)
(* Claims about from_local.                                                *)
(***************************************************************************)
\* the positions in the log of the calls named name
CallsOf(name) == {i \in 1..Len(plog) : plog[i].call = name}

\* from_local has raised and the first error was raised by step
FailedAt(step) == ppc = "raised" /\ plocal.original = step

\* every cleanup call made has succeeded
CleanupSucceeded ==
    \A i \in 1..Len(plog) :
        plog[i].call \in {"destroy_sandbox", "delete_codebase", "close"} => plog[i].ok

\* C16: when an upload_file call fails after the codebase was created,
\* delete_codebase is called on that codebase before the failure reaches the
\* caller, and the caller receives the upload failure.
C16_UploadFailureDeletesCodebase ==
    FailedAt("upload_file") =>
        /\ CallsOf("delete_codebase") # {}
        /\ perr = "upload_file"

\* C17: when create_sandbox fails the codebase is deleted; when start_sandbox
\* fails the sandbox is destroyed and then the codebase is deleted, before the
\* error reaches the caller; with every cleanup call successful, a failed
\* provision leaves neither codebase nor sandbox on the service.
C17_SandboxFailureRollsBack ==
    /\ FailedAt("create_sandbox") => CallsOf("delete_codebase") # {}
    /\ FailedAt("start_sandbox") =>
          \E i \in CallsOf("destroy_sandbox") :
             \E j \in CallsOf("delete_codebase") : i < j
    /\ (ppc = "raised" /\ CleanupSucceeded) =>
          (~psvc.codebase /\ psvc.sandbox = "none")

\* C18: a failing cleanup step (destroy_sandbox, delete_codebase, closing the
\* client) is swallowed: the error the caller of a failed provision sees is
\* always the original one.
C18_CleanupFailureSwallowed ==
    ppc = "raised" => perr = plocal.original

\* C19: a path that does not exist or is not a directory fails with the
\* invalid-path error before any external call: no client is opened, and no
\* codebase, upload or sandbox call is made.
C19_InvalidPathFailsFirst ==
    pin.path # "dir" =>
        /\ plog = <<>>
        /\ plocal.client = "none"
        /\ psvc = [codebase |-> FALSE, sandbox |-> "none"]
        /\ ppc \in {"start", "raised"}
        /\ ppc = "raised" => perr = "validate_path"

\* from_local was given the path of a file and has raised
C19_Witness ==
    /\ pin.path = "file"
    /\ ppc = "raised"
    /\ perr = "validate_path"

\* the log of a provision that uploads n pairs and then creates the sandbox
RECURSIVE Uploads(_)
Uploads(n) ==
    IF n = 0 THEN <<>> ELSE Append(Uploads(n - 1), Call("upload_file", n, TRUE))

\* C20: in a successful provision create_codebase is called once, then
\* upload_file once per pair the walk yields, in the walk's order, then
\* create_sandbox once, then start_sandbox once if and only if auto_start; at no
\* time does an upload come before create_codebase or after a sandbox call.
C20_CallOrder ==
    /\ plog # <<>> => plog[1].call = "create_codebase"
    /\ \A i \in CallsOf("upload_file") :
          \A j \in 1..(i - 1) : plog[j].call \notin {"create_sandbox", "start_sandbox"}
    /\ ppc = "returned" =>
          plog = <<Call("create_codebase", 0, TRUE)>>
                   \o Uploads(pin.entries)
                   \o <<Call("create_sandbox", 0, TRUE)>>
                   \o (IF pin.auto_start THEN <<Call("start_sandbox", 0, TRUE)>>
                       ELSE <<>>)

\* from_local has returned without auto_start after uploading two pairs
C20_Witness ==
    /\ ppc = "returned"
    /\ ~pin.auto_start
    /\ pin.entries = 2
    /\ Len(plog) = 4
    /\ psvc.sandbox = "pending"

(***************************************************************************)
(* Claims about rule descriptions, the built-in presets and the frame of   *)
(* extend_preset.                                                          *)
(***************************************************************************)
\* SandboxClient.create_sandbox, the branch for a dict: the error of the
\* conversion of p ("" if none); permission and type are read before pattern
CreateSandboxRuleErr(p) ==
    IF "permission" \in DOMAIN p /\ p.permission \notin Permission THEN "ValueError"
    ELSE IF "type" \in DOMAIN p /\ p.type \notin PatternType THEN "ValueError"
    ELSE IF "pattern" \notin DOMAIN p THEN "KeyError"
    ELSE IF "priority" \in DOMAIN p /\ ~PyIntOk(p.priority) THEN "ValueError"
    ELSE ""

\* SandboxClient.create_sandbox, the branch for a dict: the rule sent
CreateSandboxRule(p) ==
    PermissionRule(p.pattern,
                   IF "permission" \in DOMAIN p THEN p.permission ELSE "read",
                   IF "type" \in DOMAIN p THEN p.type ELSE "glob",
                   IF "priority" \in DOMAIN p THEN PyInt(p.priority) ELSE 0)

\* the rule descriptions given as mappings in the arguments of the last call
DictArgs == {item \in Range(ret.additions \o ret.overrides) : ~IsRuleObject(item)}

\* C22: extend_preset (additions, overrides) and create_sandbox normalize a rule
\* description given as a mapping the same way: a missing permission becomes
\* read, a missing type glob, a missing priority 0, and a description that has
\* a pattern does not make the call fail.
C22_UniformNormalization ==
    (ret.op = "extend_preset" /\ ret.name \in BuiltinNames) =>
        /\ \A item \in DictArgs :
              /\ to_rule_err(item) = CreateSandboxRuleErr(item)
              /\ to_rule_err(item) = "" => to_rule(item) = CreateSandboxRule(item)
        /\ (\A item \in DictArgs : "pattern" \in DOMAIN item) => ret.status = "ok"

\* the rules of a preset that deny (none) at priority 100
CarveOuts(rules) ==
    {r.pattern : r \in {x \in Range(rules) : x.permission = "none" /\ x.priority = 100}}

\* C23: "development" holds, with permission none and priority 100, every
\* pattern that "agent-safe" holds with permission none and priority 100.
C23_DevelopmentCarveOuts ==
    CarveOuts(GetPresetRules(PRESETS, "agent-safe"))
        \subseteq CarveOuts(GetPresetRules(PRESETS, "development"))

\* in rules, every none rule is above every rule that grants view, read or write
NoneOutranksGrants(rules) ==
    \A i \in 1..Len(rules) : \A j \in 1..Len(rules) :
        (rules[i].permission = "none" /\ rules[j].permission \in {"view", "read", "write"})
            => rules[i].priority > rules[j].priority

\* C24: in every built-in preset every none rule has a priority strictly greater
\* than every rule granting view, read or write, in the registry and in what
\* get_preset returns; agent-safe has **/.env* none at 100 over **/* at 0.
C24_NoneOutranksGrants ==
    /\ \A name \in BuiltinNames : NoneOutranksGrants(GetPresetRules(PRESETS, name))
    /\ (ret.op = "get_preset" /\ ret.status = "ok" /\ ret.name \in BuiltinNames)
          => NoneOutranksGrants(ret.rules)
    /\ \E r \in Range(GetPresetRules(PRESETS, "agent-safe")) :
          r.pattern = "**/.env*" /\ r.permission = "none" /\ r.priority = 100
    /\ \E r \in Range(GetPresetRules(PRESETS, "agent-safe")) :
          r.pattern = "**/*" /\ r.permission = "read" /\ r.priority = 0

\* get_preset("agent-safe") has returned its nine rules
C24_Witness ==
    /\ ret.op = "get_preset"
    /\ ret.name = "agent-safe"
    /\ ret.status = "ok"
    /\ Len(ret.rules) = 9
    /\ \E i \in 1..Len(ret.rules) :
          /\ ret.rules[i].pattern = "**/.env*"
          /\ ret.rules[i].permission = "none"
          /\ ret.rules[i].priority = 100

\* C28: a call of extend_preset, successful or failing, leaves the registry as
\* it was (the registered names and the rules of every name) and leaves the
\* rules passed as additions and overrides as the caller built them: a boosted
\* override is a new rule.
C28_ComposeFrame ==
    [][(ret = NoCall /\ ret'.op = "extend_preset") =>
          /\ PRESETS' = PRESETS
          /\ registered' = registered
          /\ \A n \in LookupNames :
                /\ Has(PRESETS', n) = Has(PRESETS, n)
                /\ Has(PRESETS, n) => Lookup(PRESETS', n) = Lookup(PRESETS, n)
          /\ Range(ret'.additions) \subseteq AdditionItems
          /\ Range(ret'.overrides) \subseteq OverrideItems]_vars

\* extend_preset("agent-safe") returned the override /x boosted to 200 while the
\* caller's rule still has priority -5 and agent-safe still has nine rules
C28_Witness ==
    /\ ret.op = "extend_preset"
    /\ ret.name = "agent-safe"
    /\ ret.status = "ok"
    /\ ret.overrides = <<PermissionRule("/x", "none", "directory", 0 - 5)>>
    /\ ret.rules[Len(ret.rules)].pattern = "/x"
    /\ ret.rules[Len(ret.rules)].priority = 200
    /\ Len(Lookup(PRESETS, "agent-safe")) = 9

\* C21: when the caller passes no preset or passes None, the rule list sent to
\* create_sandbox starts with the rules of "view-only" (and the call does not
\* fail for an unknown preset), in Sandbox as in AsyncSandbox.
C21_DefaultPresetViewOnly ==
    pin.preset \in {"omitted", "None"} =>
        /\ plocal.original # "get_preset_dicts"
        /\ CallsOf("create_sandbox") # {} =>
              /\ Len(plocal.perm_rules) >= Len(Lookup(PRESETS, "view-only"))
              /\ SubSeq(plocal.perm_rules, 1, Len(Lookup(PRESETS, "view-only")))
                    = Lookup(PRESETS, "view-only")

\* C27: provision never retries and never goes on after a failed step: after a
\* failed upload_file there is no further upload_file, create_sandbox or
\* start_sandbox call; after a failed create_sandbox there is no start_sandbox;
\* no pair is uploaded twice.
C27_NoRetryNoContinue ==
    /\ \A i \in 1..Len(plog) : \A j \in (i + 1)..Len(plog) :
          /\ (plog[i].call = "upload_file" /\ ~plog[i].ok) =>
                plog[j].call \notin {"upload_file", "create_sandbox", "start_sandbox"}
          /\ (plog[i].call = "create_sandbox" /\ ~plog[i].ok) =>
                plog[j].call \notin {"create_sandbox", "start_sandbox"}
          /\ (plog[i].call = "upload_file" /\ plog[j].call = "upload_file") =>
                plog[i].arg # plog[j].arg
    /\ Cardinality(CallsOf("create_codebase")) <= 1
    /\ Cardinality(CallsOf("create_sandbox")) <= 1
    /\ Cardinality(CallsOf("start_sandbox")) <= 1

\* the upload of the first of two pairs failed and from_local has raised: the
\* second pair was never uploaded and no sandbox call was made
C27_Witness ==
    /\ ppc = "raised"
    /\ pin.entries = 2
    /\ plocal.original = "upload_file"
    /\ plog[2] = Call("upload_file", 1, FALSE)
    /\ Cardinality(CallsOf("upload_file")) = 1
    /\ CallsOf("create_sandbox") = {}

\* C30: when from_local fails after the client was opened, the client is closed
\* exactly once before the error reaches the caller; when it succeeds the client
\* is left open for the returned Sandbox.
C30_ClientClosedOnce ==
    /\ (ppc = "raised" /\ plocal.client # "none") =>
          Cardinality(CallsOf("close")) = 1
    /\ ppc = "returned" =>
          (CallsOf("close") = {} /\ plocal.client = "open")

(***************************************************************************)
(* SpecLifecycle: a program holding one Sandbox (or one SessionWrapper)    *)
(* that calls destroy() and runs a with-block over the object.             *)
(*                                                                         *)
(* Sandbox.destroy and AsyncSandbox.destroy are the same statements (the   *)
(* async one awaits each call), and so are __exit__ and __aexit__: one     *)
(* object stands for both.  Every call on the client may return or raise.  *)
(***************************************************************************)

\* Most destroy() calls the program makes itself (the with-block adds one).
MaxDestroys == 2

DestroyArgs == {"None", "True", "False"}

\* The objects the constructors hand out: from_local owns the client and the
\* codebase, from_codebase and connect own the client only, and __init__
\* called directly takes both flags from its caller (default False).
Objects ==
    {[kind |-> "Sandbox", origin |-> "from_local",
      owns_client |-> TRUE, owns_codebase |-> TRUE, destroyed |-> FALSE],
     [kind |-> "Sandbox", origin |-> "from_codebase",
      owns_client |-> TRUE, owns_codebase |-> FALSE, destroyed |-> FALSE],
     [kind |-> "Sandbox", origin |-> "connect",
      owns_client |-> TRUE, owns_codebase |-> FALSE, destroyed |-> FALSE]}
    \cup {[kind |-> "Sandbox", origin |-> "__init__",
           owns_client |-> oc, owns_codebase |-> ob, destroyed |-> FALSE]
          : oc \in BOOLEAN, ob \in BOOLEAN}
    \cup {[kind |-> "SessionWrapper", origin |-> "session",
           owns_client |-> FALSE, owns_codebase |-> FALSE, destroyed |-> FALSE]}

LifeInit ==
    /\ sb \in Objects
    /\ spc = "idle"
    /\ sctx = [with |-> "no", body_exc |-> "none", with_err |-> "none",
               invs |-> <<>>, exc |-> "none"]
    /\ slog = <<>>
    /\ serr = "none"

\* The invocation of destroy() (or close()) in progress, counted from 1.
CurrentInv == Len(sctx.invs)

LifeCall(name, ok) == [call |-> name, ok |-> ok, n |-> CurrentInv]

UserDestroys == Cardinality({i \in 1..Len(sctx.invs) : sctx.invs[i].caller = "user"})

\* should_delete, with the owner's flag read as the argument says.
ShouldDeleteOwnsOnly(delete_codebase, owns_codebase) == owns_codebase

\* should_delete = delete_codebase if delete_codebase is not None
\*                 else self._owns_codebase
ShouldDelete(delete_codebase, owns_codebase) ==
    IF delete_codebase # "None" THEN delete_codebase = "True" ELSE owns_codebase

\* What the statement that invoked destroy() raises when the invocation ends
\* with `exc` in flight: __exit__ returns None, so a body's exception goes on
\* only when destroy() returned; an exception of destroy() replaces it.
StatementRaises(c, exc) ==
    IF c.invs[Len(c.invs)].caller = "exit" /\ exc = "none" THEN c.body_exc ELSE exc

\* The invocation of destroy() ends with `exc` in flight.
Ends(c, exc) ==
    /\ spc' = "idle"
    /\ serr' = StatementRaises(c, exc)
    /\ sctx' = IF c.invs[Len(c.invs)].caller = "exit"
               THEN [c EXCEPT !.with = "left", !.with_err = StatementRaises(c, exc),
                              !.exc = "none"]
               ELSE [c EXCEPT !.exc = "none"]

\* destroy() is entered: `if self._destroyed: return`, else the try block.
Entered(c) ==
    IF sb.destroyed
    THEN Ends(c, "none") /\ UNCHANGED sb
    ELSE /\ spc' = "d_destroy"
         /\ sctx' = c
         /\ UNCHANGED <<sb, serr>>

\* The finally block of destroy() is reached with `exc` in flight.
Finally(exc) ==
    IF sb.owns_client
    THEN /\ spc' = "d_close"
         /\ sctx' = [sctx EXCEPT !.exc = exc]
         /\ UNCHANGED <<sb, serr>>
    ELSE /\ sb' = [sb EXCEPT !.destroyed = TRUE]
         /\ Ends(sctx, exc)

\* sandbox.destroy(delete_codebase) called by the program.
Destroy(delete_codebase) ==
    /\ spc = "idle"
    /\ sb.kind = "Sandbox"
    /\ UserDestroys < MaxDestroys
    /\ Entered([sctx EXCEPT !.invs = Append(@, [arg |-> delete_codebase,
                   caller |-> "user", live |-> ~sb.destroyed])])
    /\ slog' = slog
    /\ UNCHANGED <<registryVars, raceVars, walkVars, matchVars, provVars>>

\* `with obj as x:` is entered: __enter__ returns self.
Enter ==
    /\ spc = "idle"
    /\ sctx.with = "no"
    /\ spc' = "body"
    /\ sctx' = [sctx EXCEPT !.with = "body"]
    /\ UNCHANGED <<sb, slog, serr>>
    /\ UNCHANGED <<registryVars, raceVars, walkVars, matchVars, provVars>>

\* The body of the with-block ends, normally or with an exception, and
\* __exit__ runs: self.destroy() for a Sandbox, self.close() for a session.
Exit(raised) ==
    /\ spc = "body"
    /\ LET c == [sctx EXCEPT !.with = "exiting",
                             !.body_exc = IF raised THEN "body" ELSE "none",
                             !.invs = Append(@, [arg |-> "None", caller |-> "exit",
                                                 live |-> ~sb.destroyed])]
       IN  IF sb.kind = "Sandbox"
           THEN Entered(c)
           ELSE /\ spc' = "s_close"
                /\ sctx' = c
                /\ UNCHANGED <<sb, serr>>
    /\ slog' = slog
    /\ UNCHANGED <<registryVars, raceVars, walkVars, matchVars, provVars>>

\* self._client.destroy_sandbox(self.id)
DestroySandbox(ok) ==
    /\ spc = "d_destroy"
    /\ slog' = Append(slog, LifeCall("destroy_sandbox", ok))
    /\ IF ok /\ ShouldDelete(sctx.invs[CurrentInv].arg, sb.owns_codebase)
       THEN /\ spc' = "d_delete"
            /\ UNCHANGED <<sb, sctx, serr>>
       ELSE Finally(IF ok THEN "none" ELSE "destroy_sandbox")
    /\ UNCHANGED <<registryVars, raceVars, walkVars, matchVars, provVars>>

\* self._client.delete_codebase(self.codebase_id)
DeleteCodebase(ok) ==
    /\ spc = "d_delete"
    /\ slog' = Append(slog, LifeCall("delete_codebase", ok))
    /\ Finally(IF ok THEN "none" ELSE "delete_codebase")
    /\ UNCHANGED <<registryVars, raceVars, walkVars, matchVars, provVars>>

\* finally: self._client.close(), then self._destroyed = True.  An exception
\* of close() leaves the finally block before the assignment.
CloseClient(ok) ==
    /\ spc = "d_close"
    /\ slog' = Append(slog, LifeCall("close", ok))
    /\ sb' = IF ok THEN [sb EXCEPT !.destroyed = TRUE] ELSE sb
    /\ Ends(sctx, IF ok THEN sctx.exc ELSE "close")
    /\ UNCHANGED <<registryVars, raceVars, walkVars, matchVars, provVars>>

\* SessionWrapper.close(): self._client.destroy_session(self.id)
SessionClose(ok) ==
    /\ spc = "s_close"
    /\ slog' = Append(slog, LifeCall("destroy_session", ok))
    /\ Ends(sctx, IF ok THEN "none" ELSE "destroy_session")
    /\ UNCHANGED sb
    /\ UNCHANGED <<registryVars, raceVars, walkVars, matchVars, provVars>>

InitLifecycle == RegistryInit /\ RaceIdle /\ WalkIdle /\ MatchIdle /\ ProvIdle /\ LifeInit

NextLifecycle ==
    \/ \E a \in DestroyArgs : Destroy(a)
    \/ Enter
    \/ \E raised \in BOOLEAN : Exit(raised)
    \/ \E ok \in BOOLEAN : DestroySandbox(ok)
    \/ \E ok \in BOOLEAN : DeleteCodebase(ok)
    \/ \E ok \in BOOLEAN : CloseClient(ok)
    \/ \E ok \in BOOLEAN : SessionClose(ok)

SpecLifecycle == InitLifecycle /\ [][NextLifecycle]_vars

(***************************************************************************)
(* Claims about destroy() and the with-block (SpecLifecycle).              *)
(***************************************************************************)

\* The calls named `name` that invocation n of destroy() (or close()) made.
InvCalls(n, name) ==
    {i \in 1..Len(slog) : slog[i].n = n /\ slog[i].call = name}

\* Invocation n has returned or raised.
InvEnded(n) == n < CurrentInv \/ (n = CurrentInv /\ spc \in {"idle", "body"})

\* The destroy() invocations that found the object not yet destroyed and ended.
LiveEnded ==
    {n \in 1..CurrentInv : sb.kind = "Sandbox" /\ sctx.invs[n].live /\ InvEnded(n)}

\* The rule of the claim: the argument is true, or absent with an owned codebase.
DeleteWanted(n) ==
    \/ sctx.invs[n].arg = "True"
    \/ sctx.invs[n].arg = "None" /\ sb.owns_codebase

ExitInvs ==
    {n \in 1..CurrentInv : sctx.invs[n].caller = "exit" /\ sctx.with = "left"}

DestroyCallOf(kind) ==
    IF kind = "Sandbox" THEN "destroy_sandbox" ELSE "destroy_session"

\* C26: leaving the with-block of a live Sandbox (of a SessionWrapper), the
\* body having ended normally or raised, calls destroy_sandbox (destroy_session)
\* exactly once, and an exception of the body is the one the caller sees.
C26_ExitDestroysAndPropagates ==
    \A n \in ExitInvs :
        sctx.invs[n].live =>
            /\ Cardinality(InvCalls(n, DestroyCallOf(sb.kind))) = 1
            /\ sctx.body_exc # "none" => sctx.with_err = sctx.body_exc

\* C29: once destroy() has been called one time, returned or raised, no later
\* destroy() (the one of the with-block included) calls the service or closes
\* the client; if destroy_sandbox failed in the first call, delete_codebase is
\* never called, and an owned client is closed exactly once.
C29_DestroyAtMostOnce ==
    (sb.kind = "Sandbox" /\ CurrentInv >= 1 /\ InvEnded(1)) =>
        /\ \A i \in 1..Len(slog) : slog[i].n = 1
        /\ (\E i \in InvCalls(1, "destroy_sandbox") : ~slog[i].ok)
              => \A n \in 1..CurrentInv : InvCalls(n, "delete_codebase") = {}
        /\ sb.owns_client
              => Cardinality({i \in 1..Len(slog) : slog[i].call = "close"}) = 1
====
